---- MODULE Spec2Model ----
(***************************************************************************)
(* The WASM bootstrap scripts of prezentare_licenta.                       *)
(*                                                                         *)
(*   shared  src/main.js 1-17    init({module, memory}).then(async ...)    *)
(*   white   src/main.js 18-31   init().then(...).catch(...)               *)
(*   plain   src/unnamed/part_000  init().then(...).catch(...)             *)
(*                                                                         *)
(* A loader state is a record: the script's position, the promises it      *)
(* waits on, and the trace of everything observable it has done so far     *)
(* (console lines, calls into the module, promise settlements, host        *)
(* events), in order.  The imported module is opaque: what it exports and  *)
(* how its promises settle is an input, drawn in Init.                     *)
(***************************************************************************)
EXTENDS Naturals, Sequences, FiniteSets

VARIABLES run, twin

vars == <<run, twin>>

\* How many distinct error values the module may fail with.
NumErrors == 2

\* await wasm.initThreadPool(2)
WorkerCount == 2

ErrorNames == <<"network error", "RuntimeError: unreachable", "LinkError", "RangeError">>

Errors == {ErrorNames[i] : i \in 1..NumErrors}

\* What `wasm.initThreadPool(2)` throws when the module has no such export.
NotAFunction == "TypeError: wasm.initThreadPool is not a function"

Variants == {"shared", "white", "plain"}

\* The variants whose promise chain ends in .catch(...)
CatchVariants == {"white", "plain"}

\* The module's behaviour: its exports and the outcome of each of its calls.
Modules ==
    [exports      : SUBSET {"wasm_main", "initThreadPool"},
     initOutcome  : {"resolve", "never"} \cup Errors,
     poolOutcome  : {"resolve", "never"} \cup Errors,
     mainOutcome  : {"return"} \cup Errors]

Ev(kind, name, arg, n) == [kind |-> kind, name |-> name, arg |-> arg, n |-> n]

\* console.log prints a boolean as true / false
BoolStr(b) == IF b THEN "true" ELSE "false"

\* The argument of init(): the shared variant passes the module URL and a
\* shared memory, the others pass nothing.
InitOptions(variant) == IF variant = "shared" THEN "{module, memory}" ELSE ""

Loader(variant, sab, mod) ==
    [variant |-> variant, sab |-> sab, mod |-> mod,
     pc |-> "start", initP |-> "none", poolP |-> "none",
     reason |-> "", trace |-> <<>>]

\* console.log("SharedArrayBuffer available:", typeof SharedArrayBuffer !== "undefined")
ProbeCapability(s, t) ==
    /\ s.pc = "start"
    /\ t = [s EXCEPT
              !.trace = Append(@, Ev("log", "SharedArrayBuffer available:", BoolStr(s.sab), 0)),
              !.pc = "probed"]

\* Fault: the init(...) statement placed above the probe's console.log.
CallInit_BeforeProbe(s, t) ==
    /\ s.pc \in {"start", "probed"}
    /\ t = [s EXCEPT
              !.trace = Append(@, Ev("call", "init", InitOptions(s.variant), 0)),
              !.initP = "pending",
              !.pc = "waitInit"]

\* init(...).then(...)[.catch(...)]: the call and the handlers attached to
\* its promise, one synchronous statement.
CallInit(s, t) ==
    /\ s.pc = "probed"
    /\ t = [s EXCEPT
              !.trace = Append(@, Ev("call", "init", InitOptions(s.variant), 0)),
              !.initP = "pending",
              !.pc = "waitInit"]

\* The module resolves the promise of init(); the then-handler is queued.
InitResolves(s, t) ==
    /\ s.pc = "waitInit"
    /\ s.initP = "pending"
    /\ s.mod.initOutcome = "resolve"
    /\ t = [s EXCEPT
              !.trace = Append(@, Ev("fulfilled", "init", "", 0)),
              !.initP = "fulfilled",
              !.pc = "thenJob"]

\* Fault: the handler attached for both outcomes, then(f, f), so that a
\* rejected init() runs it too.
InitRejects_RunsThen(s, t) ==
    /\ s.pc = "waitInit"
    /\ s.initP = "pending"
    /\ s.mod.initOutcome \in Errors
    /\ t = [s EXCEPT
              !.trace = Append(@, Ev("rejected", "init", s.mod.initOutcome, 0)),
              !.initP = "rejected",
              !.reason = s.mod.initOutcome,
              !.pc = "thenJob"]

\* The module rejects the promise of init(); the then-handler is skipped and
\* the rejection passes down the chain.
InitRejects(s, t) ==
    /\ s.pc = "waitInit"
    /\ s.initP = "pending"
    /\ s.mod.initOutcome \in Errors
    /\ t = [s EXCEPT
              !.trace = Append(@, Ev("rejected", "init", s.mod.initOutcome, 0)),
              !.initP = "rejected",
              !.reason = s.mod.initOutcome,
              !.pc = "rejectedJob"]

\* Fault: wasm_main called without the existence check.
EntryPoint_Unchecked(s) ==
    IF s.mod.mainOutcome = "return" /\ "wasm_main" \in s.mod.exports
    THEN <<Ev("call", "wasm_main", "", 0),
           Ev("return", "wasm_main", "", 0),
           Ev("log", "wasm_main called", "", 0)>>
    ELSE <<Ev("call", "wasm_main", "", 0),
           Ev("throw", "wasm_main", s.mod.mainOutcome, 0)>>

\* Fault: the "wasm_main called" line written above the call.
EntryPoint_LogFirst(s) ==
    <<Ev("check", "wasm_main", BoolStr("wasm_main" \in s.mod.exports), 0)>> \o
    (IF "wasm_main" \notin s.mod.exports THEN <<>>
     ELSE IF s.mod.mainOutcome = "return"
          THEN <<Ev("log", "wasm_main called", "", 0),
                 Ev("call", "wasm_main", "", 0),
                 Ev("return", "wasm_main", "", 0)>>
          ELSE <<Ev("log", "wasm_main called", "", 0),
                 Ev("call", "wasm_main", "", 0),
                 Ev("throw", "wasm_main", s.mod.mainOutcome, 0)>>)

\* if (wasm.wasm_main) { wasm.wasm_main(); console.log("wasm_main called"); }
\* as the events it adds to the trace.
EntryPoint(s) ==
    <<Ev("check", "wasm_main", BoolStr("wasm_main" \in s.mod.exports), 0)>> \o
    (IF "wasm_main" \notin s.mod.exports THEN <<>>
     ELSE IF s.mod.mainOutcome = "return"
          THEN <<Ev("call", "wasm_main", "", 0),
                 Ev("return", "wasm_main", "", 0),
                 Ev("log", "wasm_main called", "", 0)>>
          ELSE <<Ev("call", "wasm_main", "", 0),
                 Ev("throw", "wasm_main", s.mod.mainOutcome, 0)>>)

\* Whether the block above ends by an exception of wasm_main.
EntryPointThrows(s) ==
    "wasm_main" \in s.mod.exports /\ s.mod.mainOutcome \in Errors

\* Fault: the shared variant's pool start copied into the other variants.
ThenHandler_WithPool(s, t) ==
    /\ s.pc = "thenJob"
    /\ s.variant \in CatchVariants
    /\ t = [s EXCEPT
              !.trace = @ \o <<Ev("log", "WASM module initialized", "", 0),
                               Ev("call", "initThreadPool", "", WorkerCount)>>
                          \o EntryPoint(s),
              !.reason = IF EntryPointThrows(s) THEN s.mod.mainOutcome ELSE @,
              !.pc = IF EntryPointThrows(s) THEN "rejectedJob" ELSE "done"]

\* The then-handler of the white and plain variants.
ThenHandler(s, t) ==
    /\ s.pc = "thenJob"
    /\ s.variant \in CatchVariants
    /\ t = [s EXCEPT
              !.trace = Append(@, Ev("log", "WASM module initialized", "", 0)) \o EntryPoint(s),
              !.reason = IF EntryPointThrows(s) THEN s.mod.mainOutcome ELSE @,
              !.pc = IF EntryPointThrows(s) THEN "rejectedJob" ELSE "done"]

\* Fault: initThreadPool(2) called without await, the handler running on to
\* the entry point at once.
ThenHandlerAsync_NoAwait(s, t) ==
    /\ s.pc = "thenJob"
    /\ s.variant = "shared"
    /\ t = [s EXCEPT
              !.trace = @ \o <<Ev("log", "WASM module initialized", "", 0),
                               Ev("call", "initThreadPool", "", WorkerCount)>>
                          \o EntryPoint(s),
              !.poolP = "pending",
              !.pc = "waitPool"]

\* Fault: the pool started only where SharedArrayBuffer exists, the handler
\* otherwise going straight to the entry point.
ThenHandlerAsync_IfSab(s, t) ==
    /\ s.pc = "thenJob"
    /\ s.variant = "shared"
    /\ IF s.sab
       THEN t = [s EXCEPT
                   !.trace = @ \o <<Ev("log", "WASM module initialized", "", 0),
                                    Ev("call", "initThreadPool", "", WorkerCount)>>,
                   !.poolP = "pending",
                   !.pc = "waitPool"]
       ELSE t = [s EXCEPT
                   !.trace = Append(@, Ev("log", "WASM module initialized", "", 0)) \o EntryPoint(s),
                   !.reason = IF EntryPointThrows(s) THEN s.mod.mainOutcome ELSE @,
                   !.pc = IF EntryPointThrows(s) THEN "rejectedJob" ELSE "done"]

\* Fault: the pool start guarded like the entry point,
\* if (wasm.initThreadPool) await wasm.initThreadPool(2).
ThenHandlerAsync_Guarded(s, t) ==
    /\ s.pc = "thenJob"
    /\ s.variant = "shared"
    /\ IF "initThreadPool" \in s.mod.exports
       THEN t = [s EXCEPT
                   !.trace = @ \o <<Ev("log", "WASM module initialized", "", 0),
                                    Ev("call", "initThreadPool", "", WorkerCount)>>,
                   !.poolP = "pending",
                   !.pc = "waitPool"]
       ELSE t = [s EXCEPT
                   !.trace = Append(@, Ev("log", "WASM module initialized", "", 0)) \o EntryPoint(s),
                   !.reason = IF EntryPointThrows(s) THEN s.mod.mainOutcome ELSE @,
                   !.pc = IF EntryPointThrows(s) THEN "rejectedJob" ELSE "done"]

\* The async then-handler of the shared variant, up to its await.
ThenHandlerAsync(s, t) ==
    /\ s.pc = "thenJob"
    /\ s.variant = "shared"
    /\ IF "initThreadPool" \in s.mod.exports
       THEN t = [s EXCEPT
                   !.trace = @ \o <<Ev("log", "WASM module initialized", "", 0),
                                    Ev("call", "initThreadPool", "", WorkerCount)>>,
                   !.poolP = "pending",
                   !.pc = "waitPool"]
       ELSE t = [s EXCEPT
                   !.trace = @ \o <<Ev("log", "WASM module initialized", "", 0),
                                    Ev("throw", "initThreadPool", NotAFunction, 0)>>,
                   !.reason = NotAFunction,
                   !.pc = "rejectedJob"]

\* Fault: the await raced against a timer, the handler going on when the
\* pool's promise stays pending.
PoolResolves_OrTimeout(s, t) ==
    /\ s.pc = "waitPool"
    /\ s.poolP = "pending"
    /\ s.mod.poolOutcome \in {"resolve", "never"}
    /\ t = [s EXCEPT
              !.trace = Append(@, Ev("fulfilled", "initThreadPool", "", 0)),
              !.poolP = "fulfilled",
              !.pc = "resumeJob"]

\* The module resolves the promise of initThreadPool(2); the handler's
\* continuation is queued.
PoolResolves(s, t) ==
    /\ s.pc = "waitPool"
    /\ s.poolP = "pending"
    /\ s.mod.poolOutcome = "resolve"
    /\ t = [s EXCEPT
              !.trace = Append(@, Ev("fulfilled", "initThreadPool", "", 0)),
              !.poolP = "fulfilled",
              !.pc = "resumeJob"]

\* The module rejects the promise of initThreadPool(2): the await throws and
\* the handler's promise rejects.
PoolRejects(s, t) ==
    /\ s.pc = "waitPool"
    /\ s.poolP = "pending"
    /\ s.mod.poolOutcome \in Errors
    /\ t = [s EXCEPT
              !.trace = Append(@, Ev("rejected", "initThreadPool", s.mod.poolOutcome, 0)),
              !.poolP = "rejected",
              !.reason = s.mod.poolOutcome,
              !.pc = "rejectedJob"]

\* The shared variant's handler after its await.
AfterAwait(s, t) ==
    /\ s.pc = "resumeJob"
    /\ t = [s EXCEPT
              !.trace = @ \o EntryPoint(s),
              !.reason = IF EntryPointThrows(s) THEN s.mod.mainOutcome ELSE @,
              !.pc = IF EntryPointThrows(s) THEN "rejectedJob" ELSE "done"]

\* Fault: the chain written init().catch(...).then(...), so that the
\* then-handler runs after the failure was logged.
CatchHandler_ThenAfter(s, t) ==
    /\ s.pc = "rejectedJob"
    /\ s.variant \in CatchVariants
    /\ t = [s EXCEPT
              !.trace = Append(@, Ev("error", "Failed to initialize WASM:", s.reason, 0)),
              !.pc = IF s.initP = "rejected" THEN "thenJob" ELSE "done"]

\* Fault: a failed run starting over with another init().
CatchHandler_Retry(s, t) ==
    /\ s.pc = "rejectedJob"
    /\ s.variant \in CatchVariants
    /\ t = [s EXCEPT
              !.trace = @ \o <<Ev("error", "Failed to initialize WASM:", s.reason, 0),
                               Ev("call", "init", InitOptions(s.variant), 0)>>,
              !.initP = "pending",
              !.pc = "waitInit"]

\* .catch(error => { console.error("Failed to initialize WASM:", error); })
CatchHandler(s, t) ==
    /\ s.pc = "rejectedJob"
    /\ s.variant \in CatchVariants
    /\ t = [s EXCEPT
              !.trace = Append(@, Ev("error", "Failed to initialize WASM:", s.reason, 0)),
              !.pc = "done"]

\* Fault: a .catch on the shared variant's chain as on the others.
UnhandledRejection_Caught(s, t) ==
    /\ s.pc = "rejectedJob"
    /\ s.variant = "shared"
    /\ t = [s EXCEPT
              !.trace = Append(@, Ev("error", "Failed to initialize WASM:", s.reason, 0)),
              !.pc = "done"]

\* The shared variant attaches no rejection handler: the rejection reaches
\* the host.
UnhandledRejection(s, t) ==
    /\ s.pc = "rejectedJob"
    /\ s.variant = "shared"
    /\ t = [s EXCEPT
              !.trace = Append(@, Ev("unhandledrejection", "", s.reason, 0)),
              !.pc = "done"]

Init ==
    /\ run \in {Loader(v, b, m) : v \in Variants, b \in BOOLEAN, m \in Modules}
    /\ twin = run

Next ==
    \/ ProbeCapability(run, run') /\ UNCHANGED twin
    \/ CallInit(run, run') /\ UNCHANGED twin
    \/ InitResolves(run, run') /\ UNCHANGED twin
    \/ InitRejects(run, run') /\ UNCHANGED twin
    \/ ThenHandler(run, run') /\ UNCHANGED twin
    \/ ThenHandlerAsync(run, run') /\ UNCHANGED twin
    \/ PoolResolves(run, run') /\ UNCHANGED twin
    \/ PoolRejects(run, run') /\ UNCHANGED twin
    \/ AfterAwait(run, run') /\ UNCHANGED twin
    \/ CatchHandler(run, run') /\ UNCHANGED twin
    \/ UnhandledRejection(run, run') /\ UNCHANGED twin

Spec == Init /\ [][Next]_vars

\* The host runs every queued job, and a promise the module settles is
\* settled eventually.
FairSpec == Spec /\ WF_vars(Next)

(***************************************************************************)
(* Two executions of the same script with the same module, on hosts that   *)
(* differ only in whether SharedArrayBuffer is defined, stepping together. *)
(***************************************************************************)
PairInit ==
    /\ run \in {Loader(v, b, m) : v \in Variants, b \in BOOLEAN, m \in Modules}
    /\ twin = [run EXCEPT !.sab = ~run.sab]

PairNext ==
    \/ ProbeCapability(run, run') /\ ProbeCapability(twin, twin')
    \/ CallInit(run, run') /\ CallInit(twin, twin')
    \/ InitResolves(run, run') /\ InitResolves(twin, twin')
    \/ InitRejects(run, run') /\ InitRejects(twin, twin')
    \/ ThenHandler(run, run') /\ ThenHandler(twin, twin')
    \/ ThenHandlerAsync(run, run') /\ ThenHandlerAsync(twin, twin')
    \/ PoolResolves(run, run') /\ PoolResolves(twin, twin')
    \/ PoolRejects(run, run') /\ PoolRejects(twin, twin')
    \/ AfterAwait(run, run') /\ AfterAwait(twin, twin')
    \/ CatchHandler(run, run') /\ CatchHandler(twin, twin')
    \/ UnhandledRejection(run, run') /\ UnhandledRejection(twin, twin')

PairSpec == PairInit /\ [][PairNext]_vars

(***************************************************************************)
(* Reading the trace.                                                      *)
(***************************************************************************)
Is(e, kind, name) == e.kind = kind /\ e.name = name

Count(tr, kind, name) == Cardinality({i \in DOMAIN tr : Is(tr[i], kind, name)})

Occurs(tr, kind, name) == \E i \in DOMAIN tr : Is(tr[i], kind, name)

\* Every (kind2, name2) event of tr has a (kind1, name1) event before it.
Precedes(tr, kind1, name1, kind2, name2) ==
    \A i \in DOMAIN tr :
        Is(tr[i], kind2, name2) => \E j \in 1..(i - 1) : Is(tr[j], kind1, name1)

HasMain(s) == "wasm_main" \in s.mod.exports

Invoked(s) == Occurs(s.trace, "call", "wasm_main")

(***************************************************************************)
(* C1: in each of the three variants the "SharedArrayBuffer available:"    *)
(* line is logged before init() is called.                                 *)
(***************************************************************************)
C1_ProbeBeforeInit ==
    Precedes(run.trace, "log", "SharedArrayBuffer available:", "call", "init")

C1_Witness ==
    /\ run.variant = "white"
    /\ Occurs(run.trace, "call", "init")
    /\ run.trace[1] = Ev("log", "SharedArrayBuffer available:", "false", 0)

(***************************************************************************)
(* C2, as stated: in every variant, once init() has resolved and the run   *)
(* has ended, wasm_main was invoked if and only if the module exposes it;  *)
(* and wasm_main is never invoked before init() resolved.                  *)
(***************************************************************************)
C2_Original ==
    /\ Precedes(run.trace, "fulfilled", "init", "call", "wasm_main")
    /\ (run.pc = "done" /\ run.initP = "fulfilled") => (Invoked(run) <=> HasMain(run))

(***************************************************************************)
(* C2, amended: wasm_main is never invoked before init() resolved, and     *)
(* only if the module exposes it; once init() has resolved and the run has *)
(* ended, wasm_main was invoked if and only if the module exposes it and,  *)
(* in the shared variant, the promise of initThreadPool(2) resolved.       *)
(***************************************************************************)
C2_InvokedIffExposed ==
    /\ Precedes(run.trace, "fulfilled", "init", "call", "wasm_main")
    /\ Invoked(run) => HasMain(run)
    /\ (run.pc = "done" /\ run.initP = "fulfilled") =>
          (Invoked(run) <=>
              (HasMain(run) /\ (run.variant = "shared" => run.poolP = "fulfilled")))

C2_Witness ==
    /\ run.pc = "done"
    /\ run.variant = "shared"
    /\ run.poolP = "fulfilled"
    /\ Invoked(run)

(***************************************************************************)
(* C3: in the white and plain variants, when init() rejects, wasm_main is  *)
(* never invoked, neither "WASM module initialized" nor "wasm_main called" *)
(* is logged, and "Failed to initialize WASM:" with that error is logged   *)
(* exactly once.                                                           *)
(***************************************************************************)
C3_InitRejectionLoggedOnce ==
    (run.variant \in CatchVariants /\ run.initP = "rejected") =>
        /\ ~Invoked(run)
        /\ ~Occurs(run.trace, "log", "WASM module initialized")
        /\ ~Occurs(run.trace, "log", "wasm_main called")
        /\ run.pc \in {"rejectedJob", "done"}
        /\ Count(run.trace, "error", "Failed to initialize WASM:")
              = (IF run.pc = "done" THEN 1 ELSE 0)
        /\ \A i \in DOMAIN run.trace :
              run.trace[i].kind = "error" =>
                  run.trace[i] = Ev("error", "Failed to initialize WASM:", run.mod.initOutcome, 0)

C3_Witness ==
    /\ run.variant = "plain"
    /\ run.initP = "rejected"
    /\ run.pc = "done"
    /\ run.trace[Len(run.trace)] = Ev("error", "Failed to initialize WASM:", "network error", 0)

(***************************************************************************)
(* C4: in the shared variant the promise of initThreadPool(2) has resolved *)
(* before the existence check of wasm_main is evaluated and before         *)
(* wasm_main is invoked; wasm_main is never invoked while the pool is      *)
(* starting or after its startup rejected.                                 *)
(***************************************************************************)
C4_PoolAwaitedFirst ==
    run.variant = "shared" =>
        /\ Precedes(run.trace, "fulfilled", "initThreadPool", "check", "wasm_main")
        /\ Precedes(run.trace, "fulfilled", "initThreadPool", "call", "wasm_main")
        /\ (Invoked(run) \/ Occurs(run.trace, "check", "wasm_main")) => run.poolP = "fulfilled"

C4_Witness ==
    /\ run.variant = "shared"
    /\ run.poolP = "fulfilled"
    /\ Invoked(run)

(***************************************************************************)
(* C5: in the white and plain variants, whenever "Failed to initialize     *)
(* WASM:" is logged, init() rejected, "WASM module initialized" was not    *)
(* logged and wasm_main was not invoked.                                   *)
(***************************************************************************)
C5_OnlyInitFailureHandled ==
    (run.variant \in CatchVariants /\ Occurs(run.trace, "error", "Failed to initialize WASM:")) =>
        /\ run.initP = "rejected"
        /\ ~Occurs(run.trace, "log", "WASM module initialized")
        /\ ~Invoked(run)

(***************************************************************************)
(* What a whole run without wasm_main leaves in the trace.                 *)
(***************************************************************************)
ProbeLine(s) == Ev("log", "SharedArrayBuffer available:", BoolStr(s.sab), 0)

QuietRun(s) ==
    <<ProbeLine(s),
      Ev("call", "init", InitOptions(s.variant), 0),
      Ev("fulfilled", "init", "", 0),
      Ev("log", "WASM module initialized", "", 0),
      Ev("check", "wasm_main", "false", 0)>>

QuietRunWithPool(s) ==
    <<ProbeLine(s),
      Ev("call", "init", InitOptions(s.variant), 0),
      Ev("fulfilled", "init", "", 0),
      Ev("log", "WASM module initialized", "", 0),
      Ev("call", "initThreadPool", "", WorkerCount),
      Ev("fulfilled", "initThreadPool", "", 0),
      Ev("check", "wasm_main", "false", 0)>>

\* The events by which an error shows: a console.error line, an exception,
\* a rejected promise, an unhandled rejection.
ErrorKinds == {"error", "throw", "rejected", "unhandledrejection"}

C6_Quiet ==
    ~HasMain(run) =>
        /\ ~Invoked(run)
        /\ ~Occurs(run.trace, "log", "wasm_main called")
        /\ (run.variant \in CatchVariants /\ run.initP = "fulfilled" /\ run.pc # "thenJob") =>
              (run.pc = "done" /\ run.trace = QuietRun(run))
        /\ (run.variant = "shared" /\ run.initP = "fulfilled" /\ run.pc # "thenJob") =>
              /\ Occurs(run.trace, "log", "WASM module initialized")
              /\ "initThreadPool" \in run.mod.exports =>
                    Count(run.trace, "call", "initThreadPool") = 1
        /\ (run.variant = "shared" /\ run.poolP = "fulfilled" /\ run.pc # "resumeJob") =>
              (run.pc = "done" /\ run.trace = QuietRunWithPool(run))
        /\ (/\ run.variant = "shared"
            /\ run.initP = "fulfilled"
            /\ "initThreadPool" \in run.mod.exports
            /\ run.mod.poolOutcome = "never") => run.pc # "done"

C7_SharedFailureUnhandled ==
    (run.variant = "shared" /\ (run.initP = "rejected" \/ run.poolP = "rejected")) =>
        /\ ~Occurs(run.trace, "error", "Failed to initialize WASM:")
        /\ \A i \in DOMAIN run.trace : run.trace[i].kind # "error"
        /\ ~Invoked(run)
        /\ ~Occurs(run.trace, "log", "wasm_main called")
        /\ run.pc \in {"rejectedJob", "done"}
        /\ run.reason = (IF run.initP = "rejected" THEN run.mod.initOutcome
                                                    ELSE run.mod.poolOutcome)
        /\ run.pc = "done" =>
              run.trace[Len(run.trace)] = Ev("unhandledrejection", "", run.reason, 0)

C7_Witness ==
    /\ run.variant = "shared"
    /\ run.poolP = "rejected"
    /\ run.pc = "done"
    /\ run.trace[Len(run.trace)] = Ev("unhandledrejection", "", "network error", 0)

(***************************************************************************)
(* C8: the probe's result is only logged: two runs of a variant with the   *)
(* same module, differing only in whether SharedArrayBuffer is defined,    *)
(* make the same calls and log the same lines in the same order, apart     *)
(* from the value printed on the probe's line.  (Under PairSpec.)          *)
(***************************************************************************)
Masked(tr) ==
    [i \in DOMAIN tr |->
        IF Is(tr[i], "log", "SharedArrayBuffer available:")
        THEN [tr[i] EXCEPT !.arg = "*"]
        ELSE tr[i]]

C8_ProbeNotActedUpon ==
    (run.sab # twin.sab /\ run.variant = twin.variant /\ run.mod = twin.mod) =>
        /\ Masked(run.trace) = Masked(twin.trace)
        /\ run.pc = twin.pc
        /\ run.trace # <<>> =>
              /\ run.trace[1] = ProbeLine(run)
              /\ twin.trace[1] = ProbeLine(twin)
              /\ run.trace[1] # twin.trace[1]

C8_Witness ==
    /\ run.sab # twin.sab
    /\ run.variant = "shared"
    /\ run.pc = "done"
    /\ twin.pc = "done"
    /\ Invoked(run)
    /\ Invoked(twin)
    /\ run.trace # twin.trace

(***************************************************************************)
(* C9: no retries: in every variant init() is called exactly once          *)
(* (at most once at any time, and once as soon as the script has passed    *)
(* that statement), initThreadPool at most once and wasm_main at most      *)
(* once, whether or not any of them fails.                                 *)
(***************************************************************************)
C9_NoRetries ==
    /\ Count(run.trace, "call", "init")
          = (IF run.pc \in {"start", "probed"} THEN 0 ELSE 1)
    /\ Count(run.trace, "call", "initThreadPool") <= 1
    /\ Count(run.trace, "call", "wasm_main") <= 1

C9_Witness ==
    /\ run.pc = "done"
    /\ run.variant = "shared"
    /\ run.mod.mainOutcome \in Errors
    /\ Count(run.trace, "call", "init") = 1
    /\ Count(run.trace, "call", "initThreadPool") = 1
    /\ Count(run.trace, "call", "wasm_main") = 1

(***************************************************************************)
(* C10: the worker pool is started only in the shared variant, where       *)
(* initThreadPool is called with worker count 2, only after init() has     *)
(* resolved and after "WASM module initialized" is logged; the white and   *)
(* plain variants never call initThreadPool.                               *)
(***************************************************************************)
C10_PoolOnlyInShared ==
    /\ run.variant \in CatchVariants => ~Occurs(run.trace, "call", "initThreadPool")
    /\ Precedes(run.trace, "fulfilled", "init", "call", "initThreadPool")
    /\ Precedes(run.trace, "log", "WASM module initialized", "call", "initThreadPool")
    /\ \A i \in DOMAIN run.trace :
          Is(run.trace[i], "call", "initThreadPool") => run.trace[i].n = 2

C10_Witness ==
    /\ run.variant = "shared"
    /\ run.initP = "fulfilled"
    /\ run.trace[Len(run.trace)] = Ev("call", "initThreadPool", "", 2)

(***************************************************************************)
(* C11: in every variant "wasm_main called" is logged only after wasm_main *)
(* was invoked and returned; if wasm_main throws, the line is never        *)
(* logged, the white and plain variants log the thrown error exactly once  *)
(* as "Failed to initialize WASM:", and the shared variant ends with it as *)
(* an unhandled rejection.                                                 *)
(***************************************************************************)
C11_CalledLoggedAfterReturn ==
    /\ Precedes(run.trace, "call", "wasm_main", "log", "wasm_main called")
    /\ Precedes(run.trace, "return", "wasm_main", "log", "wasm_main called")
    /\ Occurs(run.trace, "throw", "wasm_main") =>
          /\ ~Occurs(run.trace, "log", "wasm_main called")
          /\ run.pc \in {"rejectedJob", "done"}
          /\ run.reason = run.mod.mainOutcome
          /\ run.variant \in CatchVariants =>
                /\ Count(run.trace, "error", "Failed to initialize WASM:")
                      = (IF run.pc = "done" THEN 1 ELSE 0)
                /\ run.pc = "done" =>
                      run.trace[Len(run.trace)] =
                          Ev("error", "Failed to initialize WASM:", run.mod.mainOutcome, 0)
                /\ \A i \in DOMAIN run.trace : run.trace[i].kind # "unhandledrejection"
          /\ run.variant = "shared" =>
                /\ \A i \in DOMAIN run.trace : run.trace[i].kind # "error"
                /\ Count(run.trace, "unhandledrejection", "")
                      = (IF run.pc = "done" THEN 1 ELSE 0)
                /\ run.pc = "done" =>
                      run.trace[Len(run.trace)] =
                          Ev("unhandledrejection", "", run.mod.mainOutcome, 0)

C11_Witness ==
    /\ run.variant = "white"
    /\ Occurs(run.trace, "throw", "wasm_main")
    /\ run.pc = "done"
    /\ run.trace[Len(run.trace)] =
          Ev("error", "Failed to initialize WASM:", "RuntimeError: unreachable", 0)

\* The module's promises settle so that the handler reaches the entry point.
ReachesEntryPoint(s) ==
    /\ s.mod.initOutcome = "resolve"
    /\ s.variant = "shared" =>
          ("initThreadPool" \in s.mod.exports /\ s.mod.poolOutcome = "resolve")

\* The loader waits on a promise that never settles.
WaitsForever(s) ==
    \/ s.mod.initOutcome = "never"
    \/ /\ s.variant = "shared"
       /\ s.mod.initOutcome = "resolve"
       /\ "initThreadPool" \in s.mod.exports
       /\ s.mod.poolOutcome = "never"

\* The safety part of C12: with such a promise the run neither ends nor
\* gets past the wait.
C12_NoTimeout ==
    WaitsForever(run) =>
        /\ ~Invoked(run)
        /\ ~Occurs(run.trace, "check", "wasm_main")
        /\ run.pc \in {"start", "probed", "waitInit", "thenJob", "waitPool"}
        /\ run.mod.initOutcome = "never" => run.pc \in {"start", "probed", "waitInit"}

(***************************************************************************)
(* C12: in every variant, if the init() promise resolves, the module       *)
(* exposes wasm_main and (shared variant) the promise of initThreadPool(2) *)
(* resolves, then wasm_main is eventually invoked; if the init() promise   *)
(* or the initThreadPool promise never settles, the loader waits forever   *)
(* and wasm_main is never invoked.  (Under FairSpec.)                      *)
(***************************************************************************)
C12_EventuallyInvoked ==
    /\ (HasMain(run) /\ ReachesEntryPoint(run)) ~> Invoked(run)
    /\ []C12_NoTimeout

C12_Witness ==
    /\ run.variant = "plain"
    /\ run.mod.mainOutcome = "return"
    /\ run.pc = "done"
    /\ Invoked(run)

\* A run of C12's second case, stopped where it stays.
C12_WaitingWitness ==
    /\ run.variant = "shared"
    /\ HasMain(run)
    /\ run.mod.poolOutcome = "never"
    /\ run.pc = "waitPool"

(***************************************************************************)
(* C13: the shared variant calls initThreadPool without an existence       *)
(* check: if init() resolves and the module does not expose                *)
(* initThreadPool, the call fails, wasm_main is never invoked even when    *)
(* the module exposes it, "wasm_main called" is never logged and the       *)
(* loader logs no failure.                                                 *)
(***************************************************************************)
C13_PoolCalledUnchecked ==
    (/\ run.variant = "shared"
     /\ "initThreadPool" \notin run.mod.exports
     /\ run.initP = "fulfilled"
     /\ run.pc # "thenJob") =>
        /\ Count(run.trace, "throw", "initThreadPool") = 1
        /\ run.reason = NotAFunction
        /\ run.pc \in {"rejectedJob", "done"}
        /\ ~Invoked(run)
        /\ ~Occurs(run.trace, "check", "wasm_main")
        /\ ~Occurs(run.trace, "log", "wasm_main called")
        /\ \A i \in DOMAIN run.trace : run.trace[i].kind # "error"
        /\ run.pc = "done" =>
              run.trace[Len(run.trace)] = Ev("unhandledrejection", "", NotAFunction, 0)

C13_Witness ==
    /\ run.variant = "shared"
    /\ "initThreadPool" \notin run.mod.exports
    /\ HasMain(run)
    /\ run.pc = "done"
    /\ Occurs(run.trace, "throw", "initThreadPool")

====
